---- MODULE Spec2Model ----
(***************************************************************************)
(* Model of adeweaver/context-engineering.                                 *)
(*                                                                         *)
(*   system_prompt/context_middleware.py   context_aware_prompt            *)
(*   multi_agent_example/fin_assistant.py  fin_assistant                   *)
(*   multi_agent_example/med_assistant.py  med_assistant                   *)
(*   multi_agent_example/knowledge_agent.py knowledge_orchestrator         *)
(*                                                                         *)
(* Text is a sequence of pieces: a piece is a maximal run of literal or    *)
(* interpolated text, and the newline is a piece of its own, so that a     *)
(* joined prompt can be split into lines again.                            *)
(***************************************************************************)
EXTENDS Integers, Sequences, FiniteSets, TLC

\* ------------------------------------------------------------------ bounds
MaxMessages == 11

\* --------------------------------------------------------------- constants
LongThreshold == 10

NL == "\n"
None == "None"

BaseSegment == <<"You are a helpful assistant.">>
LongSegment == <<"This is a long conversation - be extra concise.">>
DefaultStyle == "balanced"
StyleKey == "communication_style"
PreferencesNs == <<"preferences">>

\* ------------------------------------------------------------ text helpers
RECURSIVE JoinReversed(_, _)
JoinReversed(sep, parts) ==
    IF parts = <<>> THEN <<>>
    ELSE IF Len(parts) = 1 THEN parts[1]
    ELSE JoinReversed(sep, Tail(parts)) \o sep \o parts[1]

RECURSIVE JoinStr(_, _)
\* sep.join(parts)
JoinStr(sep, parts) ==
    IF parts = <<>> THEN <<>>
    ELSE IF Len(parts) = 1 THEN parts[1]
    ELSE parts[1] \o sep \o JoinStr(sep, Tail(parts))

RECURSIVE SplitLines(_)
\* the lines of a text (the inverse of joining with a newline), used to read
\* a returned prompt back
SplitLines(text) ==
    IF \A i \in 1..Len(text) : text[i] # NL
    THEN <<text>>
    ELSE LET i == CHOOSE k \in 1..Len(text) :
                      text[k] = NL /\ \A j \in 1..(k - 1) : text[j] # NL
         IN  <<SubSeq(text, 1, i - 1)>> \o SplitLines(SubSeq(text, i + 1, Len(text)))

\* number of positions of a sequence holding x
CountOf(x, seq) == Cardinality({i \in 1..Len(seq) : seq[i] = x})

\* ----------------------------------------------------- the preference store
Users == {"alice", "bob"}
Procs == {"r1", "r2"}
Styles == {"concise", "formal"}

\* a dict is a set of <<key, value>> pairs with distinct keys
EmptyDict == {}
Dicts == {EmptyDict} \cup {{<<StyleKey, s>>} : s \in Styles}

\* dict.get(key, default)
DictGet(d, key, default) ==
    IF \E kv \in d : kv[1] = key
    THEN (CHOOSE kv \in d : kv[1] = key)[2]
    ELSE default

\* langgraph Item: an object exposing a value mapping; NoItem is Python's
\* None, what store.get returns when there is no record under the key
Items == [present : {TRUE}, value : Dicts]
NoItem == [present |-> FALSE, value |-> EmptyDict]
NoExc == [type |-> None, msg |-> <<>>]
NoText == <<>>
NoReply == [kind |-> "none", item |-> NoItem, error |-> NoExc]
StoreKeys == {PreferencesNs} \X Users

\* what a store access can raise
LookupFailures == {[type |-> "ConnectionError", msg |-> <<"store unreachable">>],
                   [type |-> "TimeoutError", msg |-> <<"store timed out">>]}

MessageCounts == {0} \cup ((LongThreshold - 1)..MaxMessages)
Requests == [user_id : Users,
             messages : {[i \in 1..n |-> "msg"] : n \in MessageCounts}]
NoRequest == [user_id |-> None, messages |-> <<>>]

VARIABLES store, pc, request, user_id, message_count, prompt_parts,
          storeReply, user_prefs, final_prompt, exc, reads

rvars == <<store, pc, request, user_id, message_count, prompt_parts,
           storeReply, user_prefs, final_prompt, exc, reads>>

\* fin_assistant, med_assistant
VARIABLES a_pc, a_call, agentInput, agentReply, a_out, a_exc

avars == <<a_pc, a_call, agentInput, agentReply, a_out, a_exc>>

\* knowledge_orchestrator
VARIABLES o_pc, o_call, retrieveReply, memory_context, orchestrator_prompt,
          modelReply, output_text, memStoreReply, stored, storeCalls,
          o_result, o_exc

ovars == <<o_pc, o_call, retrieveReply, memory_context, orchestrator_prompt,
           modelReply, output_text, memStoreReply, stored, storeCalls,
           o_result, o_exc>>

vars == <<rvars, avars, ovars>>

\* ------------------------------------------------- context_aware_prompt

\* message_count > 10
IsLongAtThreshold(n) == n >= LongThreshold

IsLongConversation(n) == n > LongThreshold

\* truthiness of the looked-up Item: None is falsy, an Item object is truthy
TruthyValue(item) == item.present /\ item.value # EmptyDict

Truthy(item) == item.present

StyleOfFirst(item) == DictGet(item.value, StyleKey, "concise")

\* user_prefs.value.get("communication_style", "balanced")
StyleOf(item) == DictGet(item.value, StyleKey, DefaultStyle)

\* f"User prefers {style} responses."
StyleSegment(style) == <<"User prefers ", style, " responses.">>

IsStyleSegment(line) ==
    Len(line) = 3 /\ line[1] = "User prefers " /\ line[3] = " responses."

\* the whole function on one request and one looked-up value
ResolvePrompt(req, item) ==
    JoinStr(<<NL>>,
            <<BaseSegment>>
            \o (IF IsLongConversation(Len(req.messages)) THEN <<LongSegment>> ELSE <<>>)
            \o (IF Truthy(item) THEN <<StyleSegment(StyleOf(item))>> ELSE <<>>))

RInit ==
    /\ store = [k \in StoreKeys |-> NoItem]
    /\ pc = [p \in Procs |-> "idle"]
    /\ request = [p \in Procs |-> NoRequest]
    /\ user_id = [p \in Procs |-> None]
    /\ message_count = [p \in Procs |-> 0]
    /\ prompt_parts = [p \in Procs |-> <<>>]
    /\ storeReply = [p \in Procs |-> NoReply]
    /\ user_prefs = [p \in Procs |-> NoItem]
    /\ final_prompt = [p \in Procs |-> NoText]
    /\ exc = [p \in Procs |-> NoExc]
    /\ reads = [p \in Procs |-> 0]

\* the hosting pipeline builds a request and invokes the callback
Call(p) ==
    /\ pc[p] \in {"idle", "done", "raised"}
    /\ \E req \in Requests : request' = [request EXCEPT ![p] = req]
    /\ pc' = [pc EXCEPT ![p] = "called"]
    /\ user_id' = [user_id EXCEPT ![p] = None]
    /\ message_count' = [message_count EXCEPT ![p] = 0]
    /\ prompt_parts' = [prompt_parts EXCEPT ![p] = <<>>]
    /\ storeReply' = [storeReply EXCEPT ![p] = NoReply]
    /\ user_prefs' = [user_prefs EXCEPT ![p] = NoItem]
    /\ final_prompt' = [final_prompt EXCEPT ![p] = NoText]
    /\ exc' = [exc EXCEPT ![p] = NoExc]
    /\ reads' = [reads EXCEPT ![p] = 0]
    /\ UNCHANGED store
    /\ UNCHANGED <<avars, ovars>>

\* lines 12-18
ReadContext(p) ==
    /\ pc[p] = "called"
    /\ user_id' = [user_id EXCEPT ![p] = request[p].user_id]
    /\ message_count' = [message_count EXCEPT ![p] = Len(request[p].messages)]
    /\ prompt_parts' = [prompt_parts EXCEPT ![p] = <<BaseSegment>>]
    /\ pc' = [pc EXCEPT ![p] = "check_long"]
    /\ UNCHANGED <<store, request, storeReply, user_prefs, final_prompt, exc, reads>>
    /\ UNCHANGED <<avars, ovars>>

\* lines 21-23
CheckLong(p) ==
    /\ pc[p] = "check_long"
    /\ prompt_parts' = [prompt_parts EXCEPT ![p] =
                            IF IsLongConversation(message_count[p])
                            THEN Append(@, LongSegment) ELSE @]
    /\ pc' = [pc EXCEPT ![p] = "lookup"]
    /\ UNCHANGED <<store, request, user_id, message_count,
                   storeReply, user_prefs, final_prompt, exc, reads>>
    /\ UNCHANGED <<avars, ovars>>

\* the key of store.get(("preferences",), user_id)
LookupKeyAnyUser(p) == CHOOSE k \in StoreKeys : k[2] # user_id[p]

LookupKey(p) == <<PreferencesNs, user_id[p]>>

\* the store answers a get, or the access fails
Reply(v) == [kind |-> "value", item |-> v, error |-> NoExc]
Raise(e) == [kind |-> "raise", item |-> NoItem, error |-> e]

LookupCaught(p) ==
    /\ pc[p] = "lookup"
    /\ \E r \in {Reply(store[LookupKey(p)])} \cup {Raise(e) : e \in LookupFailures} :
          /\ storeReply' = [storeReply EXCEPT ![p] = r]
          /\ user_prefs' = [user_prefs EXCEPT ![p] =
                                IF r.kind = "value" THEN r.item ELSE NoItem]
          /\ pc' = [pc EXCEPT ![p] = "check_prefs"]
    /\ reads' = [reads EXCEPT ![p] = @ + 1]
    /\ UNCHANGED <<store, request, user_id, message_count, prompt_parts,
                   final_prompt, exc>>
    /\ UNCHANGED <<avars, ovars>>

LookupPutDefault(p) ==
    /\ pc[p] = "lookup"
    /\ \E r \in {Reply(store[LookupKey(p)])} \cup {Raise(e) : e \in LookupFailures} :
          /\ storeReply' = [storeReply EXCEPT ![p] = r]
          /\ IF r.kind = "value"
             THEN /\ user_prefs' = [user_prefs EXCEPT ![p] = r.item]
                  /\ pc' = [pc EXCEPT ![p] = "check_prefs"]
                  /\ exc' = exc
                  /\ store' = IF r.item = NoItem
                              THEN [store EXCEPT ![LookupKey(p)] =
                                        [present |-> TRUE, value |-> EmptyDict]]
                              ELSE store
             ELSE /\ exc' = [exc EXCEPT ![p] = r.error]
                  /\ pc' = [pc EXCEPT ![p] = "raised"]
                  /\ UNCHANGED <<user_prefs, store>>
    /\ reads' = [reads EXCEPT ![p] = @ + 1]
    /\ UNCHANGED <<request, user_id, message_count, prompt_parts, final_prompt>>
    /\ UNCHANGED <<avars, ovars>>

\* lines 26-27: one store.get; nothing around it catches a failure
Lookup(p) ==
    /\ pc[p] = "lookup"
    /\ \E r \in {Reply(store[LookupKey(p)])} \cup {Raise(e) : e \in LookupFailures} :
          /\ storeReply' = [storeReply EXCEPT ![p] = r]
          /\ IF r.kind = "value"
             THEN /\ user_prefs' = [user_prefs EXCEPT ![p] = r.item]
                  /\ pc' = [pc EXCEPT ![p] = "check_prefs"]
                  /\ exc' = exc
             ELSE /\ exc' = [exc EXCEPT ![p] = r.error]
                  /\ pc' = [pc EXCEPT ![p] = "raised"]
                  /\ user_prefs' = user_prefs
    /\ reads' = [reads EXCEPT ![p] = @ + 1]
    /\ UNCHANGED <<store, request, user_id, message_count, prompt_parts,
                   final_prompt>>
    /\ UNCHANGED <<avars, ovars>>

ApplyPrefsReread(p) ==
    /\ pc[p] = "check_prefs"
    /\ prompt_parts' = [prompt_parts EXCEPT ![p] =
                            IF Truthy(user_prefs[p])
                            THEN Append(@, StyleSegment(
                                     IF Truthy(store[LookupKey(p)])
                                     THEN StyleOf(store[LookupKey(p)])
                                     ELSE DefaultStyle))
                            ELSE @]
    /\ pc' = [pc EXCEPT ![p] = "join"]
    /\ UNCHANGED <<store, request, user_id, message_count,
                   storeReply, user_prefs, final_prompt, exc, reads>>
    /\ UNCHANGED <<avars, ovars>>

ApplyPrefsShared(p) ==
    /\ pc[p] = "check_prefs"
    /\ prompt_parts' = [q \in Procs |->
                            IF Truthy(user_prefs[p]) /\ (q = p \/ pc[q] \in {"check_long", "lookup", "check_prefs", "join"})
                            THEN Append(prompt_parts[q], StyleSegment(StyleOf(user_prefs[p])))
                            ELSE prompt_parts[q]]
    /\ pc' = [pc EXCEPT ![p] = "join"]
    /\ UNCHANGED <<store, request, user_id, message_count,
                   storeReply, user_prefs, final_prompt, exc, reads>>
    /\ UNCHANGED <<avars, ovars>>

\* lines 29-34
ApplyPrefs(p) ==
    /\ pc[p] = "check_prefs"
    /\ prompt_parts' = [prompt_parts EXCEPT ![p] =
                            IF Truthy(user_prefs[p])
                            THEN Append(@, StyleSegment(StyleOf(user_prefs[p])))
                            ELSE @]
    /\ pc' = [pc EXCEPT ![p] = "join"]
    /\ UNCHANGED <<store, request, user_id, message_count,
                   storeReply, user_prefs, final_prompt, exc, reads>>
    /\ UNCHANGED <<avars, ovars>>

\* lines 37-40
JoinReturn(p) ==
    /\ pc[p] = "join"
    /\ final_prompt' = [final_prompt EXCEPT ![p] = JoinStr(<<NL>>, prompt_parts[p])]
    /\ pc' = [pc EXCEPT ![p] = "done"]
    /\ UNCHANGED <<store, request, user_id, message_count, prompt_parts,
                   storeReply, user_prefs, exc, reads>>
    /\ UNCHANGED <<avars, ovars>>

\* another party puts or deletes a preference record (the store is external)
StoreWrite ==
    /\ \E k \in StoreKeys, v \in Items \cup {NoItem} :
          /\ store[k] # v
          /\ store' = [store EXCEPT ![k] = v]
    /\ UNCHANGED <<pc, request, user_id, message_count, prompt_parts,
                   storeReply, user_prefs, final_prompt, exc, reads>>
    /\ UNCHANGED <<avars, ovars>>

\* ------------------------------------------- fin_assistant, med_assistant
Topics == {"retirement savings", "knee pain"}
ToolUsers == {"default_user", "Ashley_example_user"}
ToolCalls == [topic : Topics, user_id : ToolUsers]
NoCall == [topic |-> None, user_id |-> None]

\* what the agent hands back: an AgentResult carrying the model's text
AgentResults == {[text |-> <<"Plan: save 15% of income.">>],
                 [text |-> <<"Summary:", NL, "see a specialist.">>]}
NoResult == [text |-> NoText]

\* what a call of the remote model or of the memory tool can raise
CallFailures == {[type |-> "RuntimeError", msg |-> <<"connection refused">>],
                 [type |-> "ClientError", msg |-> <<"ExpiredTokenException", ": token invalid">>],
                 [type |-> "ClientError", msg |-> <<"Session ", "Expired">>]}

\* str(response)
StrResult(r) == r.text

\* str(e)
StrExc(e) == e.msg

Returns(r) == [kind |-> "value", response |-> r, error |-> NoExc]
Raises(e) == [kind |-> "raise", response |-> NoResult, error |-> e]
NoOutcome == [kind |-> "none", response |-> NoResult, error |-> NoExc]
AgentOutcomes == {Returns(r) : r \in AgentResults} \cup {Raises(e) : e \in CallFailures}

FinPrompt(topic) == <<"Generate a financial plan or concept for: ", topic>>
MedPrompt(topic) == <<"Generate a medical plan or concept for: ", topic>>
FinErrorText(e) == <<"Error processing your financial query: ">> \o StrExc(e)
MedErrorText(e) == <<"[Medical Assistant Error] ">> \o StrExc(e)

Assistants == {"fin", "med"}

AInit ==
    /\ a_pc = [a \in Assistants |-> "idle"]
    /\ a_call = [a \in Assistants |-> NoCall]
    /\ agentInput = [a \in Assistants |-> NoText]
    /\ agentReply = [a \in Assistants |-> NoOutcome]
    /\ a_out = [a \in Assistants |-> NoText]
    /\ a_exc = [a \in Assistants |-> NoExc]

\* the tool is called with a topic and a user id
AssistantCall(a) ==
    /\ a_pc[a] \in {"idle", "returned", "raised"}
    /\ \E c \in ToolCalls : a_call' = [a_call EXCEPT ![a] = c]
    /\ a_pc' = [a_pc EXCEPT ![a] = "construct"]
    /\ agentInput' = [agentInput EXCEPT ![a] = NoText]
    /\ agentReply' = [agentReply EXCEPT ![a] = NoOutcome]
    /\ a_out' = [a_out EXCEPT ![a] = NoText]
    /\ a_exc' = [a_exc EXCEPT ![a] = NoExc]

FinCall == AssistantCall("fin") /\ UNCHANGED <<rvars, ovars>>

MedCall == AssistantCall("med") /\ UNCHANGED <<rvars, ovars>>

\* fin_assistant lines 76-87: model and agent are built
FinConstruct ==
    /\ a_pc["fin"] = "construct"
    /\ a_pc' = [a_pc EXCEPT !["fin"] = "invoke"]
    /\ UNCHANGED <<a_call, agentInput, agentReply, a_out, a_exc, rvars, ovars>>

\* med_assistant lines 77-84
MedConstruct ==
    /\ a_pc["med"] = "construct"
    /\ a_pc' = [a_pc EXCEPT !["med"] = "invoke"]
    /\ UNCHANGED <<a_call, agentInput, agentReply, a_out, a_exc, rvars, ovars>>

\* fin_assistant lines 90-100: the agent is invoked inside try; except
\* Exception returns the error text
FinInvoke ==
    /\ a_pc["fin"] = "invoke"
    /\ agentInput' = [agentInput EXCEPT !["fin"] = FinPrompt(a_call["fin"].topic)]
    /\ \E o \in AgentOutcomes :
          /\ agentReply' = [agentReply EXCEPT !["fin"] = o]
          /\ a_out' = [a_out EXCEPT !["fin"] =
                          IF o.kind = "value" THEN StrResult(o.response)
                          ELSE FinErrorText(o.error)]
    /\ a_pc' = [a_pc EXCEPT !["fin"] = "returned"]
    /\ UNCHANGED <<a_call, a_exc, rvars, ovars>>

MedInvokeReraise ==
    /\ a_pc["med"] = "invoke"
    /\ agentInput' = [agentInput EXCEPT !["med"] = MedPrompt(a_call["med"].topic)]
    /\ \E o \in AgentOutcomes :
          /\ agentReply' = [agentReply EXCEPT !["med"] = o]
          /\ IF o.kind = "value"
             THEN /\ a_out' = [a_out EXCEPT !["med"] = StrResult(o.response)]
                  /\ a_pc' = [a_pc EXCEPT !["med"] = "returned"]
                  /\ a_exc' = a_exc
             ELSE /\ a_exc' = [a_exc EXCEPT !["med"] = o.error]
                  /\ a_pc' = [a_pc EXCEPT !["med"] = "raised"]
                  /\ a_out' = a_out
    /\ UNCHANGED <<a_call, rvars, ovars>>

\* med_assistant lines 86-95
MedInvoke ==
    /\ a_pc["med"] = "invoke"
    /\ agentInput' = [agentInput EXCEPT !["med"] = MedPrompt(a_call["med"].topic)]
    /\ \E o \in AgentOutcomes :
          /\ agentReply' = [agentReply EXCEPT !["med"] = o]
          /\ a_out' = [a_out EXCEPT !["med"] =
                          IF o.kind = "value" THEN StrResult(o.response)
                          ELSE MedErrorText(o.error)]
    /\ a_pc' = [a_pc EXCEPT !["med"] = "returned"]
    /\ UNCHANGED <<a_call, a_exc, rvars, ovars>>

\* --------------------------------------------------- knowledge_orchestrator
SummaryLimit == 800

\* what mem0_memory(action="retrieve") hands back: None, or a dict whose
\* "results" is a list of memories
PastMemories == {[present |-> FALSE, results |-> <<>>],
                 [present |-> TRUE, results |-> <<>>],
                 [present |-> TRUE, results |-> <<[memory |-> "prefers index funds"]>>],
                 [present |-> TRUE, results |-> <<[memory |-> "prefers index funds"],
                                                  [memory |-> "asked about PV"]>>]}
NoMemories == [present |-> FALSE, results |-> <<>>]

Retrieved(m) == [kind |-> "value", value |-> m, error |-> NoExc]
RetrieveRaises(e) == [kind |-> "raise", value |-> NoMemories, error |-> e]
NoRetrieve == [kind |-> "none", value |-> NoMemories, error |-> NoExc]
RetrieveOutcomes == {Retrieved(m) : m \in PastMemories}
                        \cup {RetrieveRaises(e) : e \in CallFailures}

Stored == [kind |-> "value", error |-> NoExc]
StoreRaises(e) == [kind |-> "raise", error |-> e]
NoStore == [kind |-> "none", error |-> NoExc]
StoreOutcomes == {Stored} \cup {StoreRaises(e) : e \in CallFailures}

Timestamps == {"2025-01-01 00:00:00 UTC"}

\* str.lower(), piece by piece
LowerPiece(w) ==
    CASE w = "ExpiredTokenException" -> "expiredtokenexception"
      [] w = "Session " -> "session "
      [] w = "Expired" -> "expired"
      [] OTHER -> w

Lower(text) == [i \in 1..Len(text) |-> LowerPiece(text[i])]

\* word in text
Contains(text, word) == \E i \in 1..Len(text) : text[i] = word

\* "ExpiredTokenException" in error_msg or "expired" in error_msg.lower()
IsExpired(error_msg) ==
    Contains(error_msg, "ExpiredTokenException") \/ Contains(Lower(error_msg), "expired")

\* text[:n]
Truncate(text, n) == SubSeq(text, 1, IF Len(text) < n THEN Len(text) ELSE n)

\* lines 69-73
MemoryContextOf(past_memories) ==
    IF past_memories.present /\ past_memories.results # <<>>
    THEN JoinStr(<<NL>>, [i \in 1..Len(past_memories.results) |->
                              <<"- ", past_memories.results[i].memory>>])
    ELSE <<"(No relevant prior memory found.)">>

\* lines 75-81
MemoryUnavailable(e) ==
    IF IsExpired(StrExc(e))
    THEN <<"(Memory unavailable - AWS credentials expired.)">>
    ELSE <<"(Memory unavailable: ">> \o StrExc(e) \o <<")">>

\* lines 84-93
OrchestratorPrompt(context, topic) ==
    <<NL, "MEMORY CONTEXT:", NL>> \o context
        \o <<NL, NL, "USER QUERY:", NL, topic, NL, NL, "TASK:", NL,
             "Decide which specialized agent to use, invoke it, and return a unified, domain-specific response.",
             NL>>

\* line 104
SummaryContent(topic, timestamp, text) ==
    <<"Session summary for '", topic, "' at ", timestamp, ":", NL>>
        \o Truncate(text, SummaryLimit)

OInit ==
    /\ o_pc = "idle"
    /\ o_call = NoCall
    /\ retrieveReply = NoRetrieve
    /\ memory_context = NoText
    /\ orchestrator_prompt = NoText
    /\ modelReply = NoOutcome
    /\ output_text = NoText
    /\ memStoreReply = NoStore
    /\ stored = NoText
    /\ storeCalls = 0
    /\ o_result = NoText
    /\ o_exc = NoExc

\* line 47: the tool is called with a topic and a user id
OrchestratorCall ==
    /\ o_pc \in {"idle", "returned", "raised"}
    /\ \E c \in ToolCalls : o_call' = c
    /\ o_pc' = "construct"
    /\ retrieveReply' = NoRetrieve
    /\ memory_context' = NoText
    /\ orchestrator_prompt' = NoText
    /\ modelReply' = NoOutcome
    /\ output_text' = NoText
    /\ memStoreReply' = NoStore
    /\ stored' = NoText
    /\ storeCalls' = 0
    /\ o_result' = NoText
    /\ o_exc' = NoExc
    /\ UNCHANGED <<rvars, avars>>

\* lines 52-63
OrchestratorConstruct ==
    /\ o_pc = "construct"
    /\ o_pc' = "retrieve"
    /\ UNCHANGED <<o_call, retrieveReply, memory_context, orchestrator_prompt,
                   modelReply, output_text, memStoreReply, stored, storeCalls,
                   o_result, o_exc>>
    /\ UNCHANGED <<rvars, avars>>

\* lines 66-81: the retrieve call and what except Exception makes of a failure
RetrieveMemory ==
    /\ o_pc = "retrieve"
    /\ \E o \in RetrieveOutcomes :
          /\ retrieveReply' = o
          /\ memory_context' = IF o.kind = "value"
                               THEN MemoryContextOf(o.value)
                               ELSE MemoryUnavailable(o.error)
    /\ o_pc' = "run"
    /\ UNCHANGED <<o_call, orchestrator_prompt, modelReply, output_text,
                   memStoreReply, stored, storeCalls, o_result, o_exc>>
    /\ UNCHANGED <<rvars, avars>>

\* lines 84-97: the model call is inside no try block
RunOrchestrator ==
    /\ o_pc = "run"
    /\ orchestrator_prompt' = OrchestratorPrompt(memory_context, o_call.topic)
    /\ \E o \in AgentOutcomes :
          /\ modelReply' = o
          /\ IF o.kind = "value"
             THEN /\ output_text' = StrResult(o.response)
                  /\ o_pc' = "store"
                  /\ o_exc' = o_exc
             ELSE /\ o_exc' = o.error
                  /\ o_pc' = "raised"
                  /\ output_text' = output_text
    /\ UNCHANGED <<o_call, retrieveReply, memory_context, memStoreReply, stored,
                   storeCalls, o_result>>
    /\ UNCHANGED <<rvars, avars>>

StoreSummaryUncaught ==
    /\ o_pc = "store"
    /\ storeCalls' = storeCalls + 1
    /\ \E o \in StoreOutcomes, ts \in Timestamps :
          /\ memStoreReply' = o
          /\ IF o.kind = "value"
             THEN /\ stored' = SummaryContent(o_call.topic, ts, output_text)
                  /\ o_result' = output_text
                  /\ o_pc' = "returned"
                  /\ o_exc' = o_exc
             ELSE /\ o_exc' = o.error
                  /\ o_pc' = "raised"
                  /\ UNCHANGED <<stored, o_result>>
    /\ UNCHANGED <<o_call, retrieveReply, memory_context, orchestrator_prompt,
                   modelReply, output_text>>
    /\ UNCHANGED <<rvars, avars>>

\* lines 99-116: the store call, its failure swallowed, and the return
StoreSummary ==
    /\ o_pc = "store"
    /\ storeCalls' = storeCalls + 1
    /\ \E o \in StoreOutcomes, ts \in Timestamps :
          /\ memStoreReply' = o
          /\ stored' = IF o.kind = "value"
                       THEN SummaryContent(o_call.topic, ts, output_text)
                       ELSE stored
    /\ o_result' = output_text
    /\ o_pc' = "returned"
    /\ UNCHANGED <<o_call, retrieveReply, memory_context, orchestrator_prompt,
                   modelReply, output_text, o_exc>>
    /\ UNCHANGED <<rvars, avars>>

Init == RInit /\ AInit /\ OInit

Next ==
    \/ \E p \in Procs : Call(p)
    \/ \E p \in Procs : ReadContext(p)
    \/ \E p \in Procs : CheckLong(p)
    \/ \E p \in Procs : Lookup(p)
    \/ \E p \in Procs : ApplyPrefs(p)
    \/ \E p \in Procs : JoinReturn(p)
    \/ StoreWrite

Spec == Init /\ [][Next]_vars

NextAssistants ==
    \/ FinCall
    \/ FinConstruct
    \/ FinInvoke
    \/ MedCall
    \/ MedConstruct
    \/ MedInvoke

SpecAssistants == Init /\ [][NextAssistants]_vars

NextOrchestrator ==
    \/ OrchestratorCall
    \/ OrchestratorConstruct
    \/ RetrieveMemory
    \/ RunOrchestrator
    \/ StoreSummary

SpecOrchestrator == Init /\ [][NextOrchestrator]_vars

\* ------------------------------------------------------ resolver claims
Returned(p) == pc[p] = "done"
OutputLines(p) == SplitLines(final_prompt[p])
StyleLineIndexes(p) == {i \in 1..Len(OutputLines(p)) : IsStyleSegment(OutputLines(p)[i])}
SentMessages(p) == Len(request[p].messages)
OwnKey(p) == <<PreferencesNs, request[p].user_id>>
InFlight(p) == pc[p] \in {"called", "check_long", "lookup", "check_prefs", "join"}

\* C1: the returned prompt is the collected segments joined with a newline in
\* the order base, long-conversation, style: the base segment is always the
\* first line (the prompt is never empty), the long-conversation segment, when
\* present, is the second line, the style segment, when present, is the last;
\* 11 messages with a record lacking communication_style gives base,
\* long-conversation, "User prefers balanced responses.".
C1_SegmentsJoinedInOrder ==
    \A p \in Procs : Returned(p) =>
        LET lines == OutputLines(p)
            hasLong == SentMessages(p) > 10
            hasStyle == user_prefs[p].present
        IN  /\ final_prompt[p] # NoText
            /\ lines = prompt_parts[p]
            /\ lines[1] = <<"You are a helpful assistant.">>
            /\ Len(lines) = 1 + (IF hasLong THEN 1 ELSE 0) + (IF hasStyle THEN 1 ELSE 0)
            /\ hasLong => lines[2] = <<"This is a long conversation - be extra concise.">>
            /\ hasStyle => IsStyleSegment(lines[Len(lines)])
            /\ (SentMessages(p) = 11 /\ hasStyle /\ user_prefs[p].value = EmptyDict) =>
                  final_prompt[p] = <<"You are a helpful assistant.", NL,
                                      "This is a long conversation - be extra concise.", NL,
                                      "User prefers ", "balanced", " responses.">>

C1_Witness ==
    \E p \in Procs :
        /\ Returned(p)
        /\ SentMessages(p) = 11
        /\ user_prefs[p].present
        /\ user_prefs[p].value = EmptyDict
        /\ Len(OutputLines(p)) = 3

\* C2: with at most 10 messages (10 included) the long-conversation segment
\* is absent from the returned prompt, with more than 10 it is there exactly
\* once, whatever the preference lookup returned.
C2_LongSegmentIffOverTen ==
    \A p \in Procs : Returned(p) =>
        CountOf(<<"This is a long conversation - be extra concise.">>, OutputLines(p))
            = (IF SentMessages(p) > 10 THEN 1 ELSE 0)

C2_Witness ==
    \E p, q \in Procs :
        /\ Returned(p) /\ SentMessages(p) = 10 /\ user_prefs[p].present
        /\ CountOf(LongSegment, OutputLines(p)) = 0
        /\ Returned(q) /\ SentMessages(q) = 11 /\ ~user_prefs[q].present
        /\ CountOf(LongSegment, OutputLines(q)) = 1

\* C3: when the lookup returned a record, the returned prompt has exactly one
\* style segment, "User prefers {style} responses.", where style is the
\* record's communication_style, or "balanced" when the record lacks the field.
C3_OneStyleSegmentWhenRecord ==
    \A p \in Procs :
        (Returned(p) /\ storeReply[p].kind = "value" /\ storeReply[p].item.present) =>
            LET value == storeReply[p].item.value
                style == IF \E kv \in value : kv[1] = "communication_style"
                         THEN (CHOOSE kv \in value : kv[1] = "communication_style")[2]
                         ELSE "balanced"
            IN  /\ Cardinality(StyleLineIndexes(p)) = 1
                /\ \A i \in StyleLineIndexes(p) :
                      OutputLines(p)[i] = <<"User prefers ", style, " responses.">>

C3_Witness ==
    \E p, q \in Procs :
        /\ Returned(p) /\ storeReply[p].item.present
        /\ storeReply[p].item.value = {<<StyleKey, "concise">>}
        /\ StyleLineIndexes(p) # {}
        /\ Returned(q) /\ storeReply[q].item.present
        /\ storeReply[q].item.value = EmptyDict
        /\ StyleLineIndexes(q) # {}

\* C4: when the lookup returned no record for the caller, the returned prompt
\* has no style segment, for every message count; the lookup reads the record
\* stored under ("preferences",), caller_id and no other, so a record of
\* another caller never contributes.
C4_NoStyleWhenAbsent ==
    \A p \in Procs :
        (Returned(p) /\ storeReply[p].kind = "value" /\ ~storeReply[p].item.present) =>
            StyleLineIndexes(p) = {}

C4_LookupReadsOwnKey ==
    \A p \in Procs :
        (pc[p] = "lookup" /\ pc'[p] = "check_prefs") =>
            /\ storeReply'[p].item = store[OwnKey(p)]
            /\ user_prefs'[p] = store[OwnKey(p)]

C4_AbsentGivesNoStyle == []C4_NoStyleWhenAbsent /\ [][C4_LookupReadsOwnKey]_vars

C4_Witness ==
    \E p \in Procs :
        /\ Returned(p)
        /\ ~storeReply[p].item.present
        /\ ~store[OwnKey(p)].present
        /\ \E k \in StoreKeys : k # OwnKey(p) /\ store[k].present
        /\ SentMessages(p) = 11
        /\ StyleLineIndexes(p) = {}

\* C5: when the preference lookup fails, the failure is not caught: it leaves
\* the call as the pending exception, unmodified, after the one lookup (no
\* retry), no default is substituted and no prompt is returned.
C5_LookupFailurePropagates ==
    \A p \in Procs : storeReply[p].kind = "raise" =>
        /\ pc[p] = "raised"
        /\ exc[p] = storeReply[p].error
        /\ final_prompt[p] = NoText
        /\ reads[p] = 1
        /\ ~user_prefs[p].present

C5_Witness ==
    \E p \in Procs :
        /\ pc[p] = "raised"
        /\ storeReply[p].kind = "raise"
        /\ exc[p] \in LookupFailures

\* C6: two calls with the same context (caller_id, message_count) that found
\* the same preference record return the same prompt.
C6_SameInputsSameOutput ==
    \A p, q \in Procs :
        (Returned(p) /\ Returned(q) /\ request[p] = request[q]
            /\ storeReply[p] = storeReply[q]) =>
        final_prompt[p] = final_prompt[q]

C6_Witness ==
    \E p, q \in Procs :
        /\ p # q
        /\ Returned(p) /\ Returned(q)
        /\ request[p] = request[q]
        /\ storeReply[p] = storeReply[q]
        /\ storeReply[p].item.present
        /\ store[OwnKey(p)] # storeReply[p].item

\* C7: under any interleaving of the invocations and of writes to the store,
\* each invocation returns the prompt a solo call returns for its own request
\* and the record it read at its lookup.
C7_EachCallAsIfAlone ==
    \A p \in Procs : Returned(p) =>
        final_prompt[p] = ResolvePrompt(request[p], user_prefs[p])

C7_Witness ==
    \E p, q \in Procs :
        /\ Returned(p) /\ pc[q] = "join"
        /\ request[p].user_id # request[q].user_id
        /\ user_prefs[p].present /\ user_prefs[q].present
        /\ StyleOf(user_prefs[p]) # StyleOf(user_prefs[q])
        /\ SentMessages(p) > 10 /\ SentMessages(q) <= 10
        /\ store[OwnKey(p)] # user_prefs[p]

\* C8: a step of the resolver changes neither the store nor the request, and
\* a call that returned has read the store exactly once.
C8_StepKeepsInputs ==
    \A p \in Procs :
        (InFlight(p) /\ pc'[p] # pc[p]) => (store' = store /\ request' = request)

C8_OneReadAtReturn == \A p \in Procs : Returned(p) => reads[p] = 1

C8_InputsUnchanged == [][C8_StepKeepsInputs]_vars /\ []C8_OneReadAtReturn

C8_Witness ==
    \E p \in Procs :
        /\ Returned(p)
        /\ reads[p] = 1
        /\ ~user_prefs[p].present
        /\ store[OwnKey(p)] = NoItem
        /\ Len(OutputLines(p)) = 2

\* --------------------------------------------------- assistant claims
\* C9: fin_assistant and med_assistant never propagate a failure of the model
\* call: when the agent call raises, the stringified exception is returned
\* behind "Error processing your financial query: " or "[Medical Assistant
\* Error] "; when it succeeds, the stringified response is returned.
C9_AssistantsReturnText ==
    \A a \in Assistants :
        /\ a_pc[a] # "raised"
        /\ a_exc[a] = NoExc
        /\ agentReply[a].kind # "none" => a_pc[a] = "returned"
        /\ a_pc[a] = "returned" =>
              /\ agentReply[a].kind \in {"value", "raise"}
              /\ agentReply[a].kind = "value" => a_out[a] = agentReply[a].response.text
              /\ (agentReply[a].kind = "raise" /\ a = "fin") =>
                    a_out[a] = <<"Error processing your financial query: ">>
                                   \o agentReply[a].error.msg
              /\ (agentReply[a].kind = "raise" /\ a = "med") =>
                    a_out[a] = <<"[Medical Assistant Error] ">>
                                   \o agentReply[a].error.msg

C9_Witness ==
    /\ a_pc["fin"] = "returned" /\ agentReply["fin"].kind = "raise"
    /\ a_out["fin"][1] = "Error processing your financial query: "
    /\ a_pc["med"] = "returned" /\ agentReply["med"].kind = "raise"
    /\ a_out["med"][1] = "[Medical Assistant Error] "

\* C10: in knowledge_orchestrator a failure of the memory retrieve or of the
\* memory store never propagates and never changes the result: after a failed
\* retrieve the model is invoked with a "Memory unavailable" placeholder as
\* memory context, and once the model call returned the stringified response
\* is returned whether the store succeeded or failed. A failure of the model
\* call propagates, and no store is attempted.
C10_MemoryFailuresSwallowed ==
    /\ o_exc # NoExc =>
          /\ o_pc = "raised"
          /\ modelReply.kind = "raise"
          /\ o_exc = modelReply.error
    /\ modelReply.kind = "raise" =>
          /\ o_pc = "raised"
          /\ o_exc = modelReply.error
          /\ storeCalls = 0
          /\ memStoreReply.kind = "none"
          /\ o_result = NoText
    /\ o_pc = "raised" => modelReply.kind = "raise"
    /\ (retrieveReply.kind = "raise" /\ modelReply.kind # "none") =>
          /\ memory_context[1] \in {"(Memory unavailable - AWS credentials expired.)",
                                    "(Memory unavailable: "}
          /\ \E i \in 1..Len(orchestrator_prompt) :
                SubSeq(orchestrator_prompt, i, i + Len(memory_context) - 1) = memory_context
    /\ retrieveReply.kind = "raise" => o_pc \in {"run", "store", "returned", "raised"}
    /\ memStoreReply.kind # "none" => o_pc = "returned"
    /\ o_pc = "returned" =>
          /\ modelReply.kind = "value"
          /\ memStoreReply.kind \in {"value", "raise"}
          /\ storeCalls = 1
          /\ o_result = modelReply.response.text

C10_Witness ==
    /\ o_pc = "returned"
    /\ retrieveReply.kind = "raise"
    /\ memStoreReply.kind = "raise"
    /\ o_result = modelReply.response.text
    /\ o_result # NoText

====
